---- MODULE Spec2Model ----
(***************************************************************************)
(* Questionnaire web application: the relational state (users,             *)
(* questionnaires, questions, responses, answers), the permission policy   *)
(* of the models and the request handlers that change the state.           *)
(*                                                                         *)
(* Encoding of Python values:                                              *)
(*   - a str is a sequence of one-character strings, "abc" is              *)
(*     <<"a","b","c">>;                                                    *)
(*   - an Optional value is a sequence of length at most one: None is      *)
(*     <<>>, a present value x is <<x>>;                                   *)
(*   - a float is the integer number of its tenths, 3.0 is 30;             *)
(*   - a percentage rounded to two places is the integer number of its     *)
(*     hundredths, 100.0 is 10000;                                         *)
(*   - a table is a function from primary keys to rows;                    *)
(*   - request.form is a function from question ids to the list of values  *)
(*     submitted for the field question_<id>.                              *)
(***************************************************************************)
EXTENDS Integers, Sequences, FiniteSets, TLC

\* ---------------------------------------------------------------- bounds
MaxResponses == 2   \* rows the responses table may hold
MaxQuestions == 2   \* rows the questions table may hold
MaxClock == 3       \* requests served in one behaviour

VARIABLES
    users,           \* users table: id -> [role, is_active]
    questionnaires,  \* questionnaires table: id -> [creator_id, flags]
    questions,       \* questions table: id -> row
    responses,       \* responses table: id -> row
    answers,         \* answers table: id -> row
    now,             \* datetime.utcnow(), one tick per request
    last,            \* the request served last and its outcome
    inflight         \* respond requests between their lookup and their commit

vars == <<users, questionnaires, questions, responses, answers, now, last, inflight>>
db == <<users, questionnaires, questions, responses, answers>>

\* ------------------------------------------------------- Python encodings
None == <<>>
Some(x) == <<x>>

\* current_user of a request without a session; also a NULL user_id
NoUser == 0

Roles == {"user", "creator", "admin"}
QUESTION_TYPES == {"single_choice", "multiple_choice", "open_ended", "scale_1_5"}

Max(S) == CHOOSE x \in S : \A y \in S : y <= x
Min(S) == CHOOSE x \in S : \A y \in S : x <= y

\* primary key of the next inserted row
NextId(tbl) == IF DOMAIN tbl = {} THEN 1 ELSE Max(DOMAIN tbl) + 1

Insert(tbl, id, row) == [i \in DOMAIN tbl \cup {id} |-> IF i = id THEN row ELSE tbl[i]]
Remove(tbl, ids) == [i \in DOMAIN tbl \ ids |-> tbl[i]]

EmptyTable == [i \in {} |-> 0]
EmptyForm == [i \in {} |-> <<>>]

\* truth value of an Optional[str]: None and "" are false
Truthy(o) == o # None /\ o[1] # <<>>

\* ', '.join(list)
RECURSIVE Join(_)
Join(list) ==
    IF list = <<>> THEN <<>>
    ELSE IF Len(list) = 1 THEN list[1]
    ELSE list[1] \o <<",", " ">> \o Join(Tail(list))

Digits == <<"0", "1", "2", "3", "4", "5", "6", "7", "8", "9">>
IsDigit(c) == \E i \in 1..10 : Digits[i] = c
DigitVal(c) == (CHOOSE i \in 1..10 : Digits[i] = c) - 1

RECURSIVE Strip(_)
Strip(s) ==
    IF s = <<>> THEN s
    ELSE IF s[1] = " " THEN Strip(Tail(s))
    ELSE IF s[Len(s)] = " " THEN Strip(SubSeq(s, 1, Len(s) - 1))
    ELSE s

RECURSIVE DecimalVal(_)
DecimalVal(s) == IF s = <<>> THEN 0 ELSE 10 * DecimalVal(SubSeq(s, 1, Len(s) - 1)) + DigitVal(s[Len(s)])

AllDigits(s) == \A i \in 1..Len(s) : IsDigit(s[i])

\* float(value): None when it raises ValueError. Literals with at most one
\* fractional digit, the value is in tenths.
ParseFloat(value) ==
    LET s == Strip(value)
        dots == {i \in 1..Len(s) : s[i] = "."}
    IN  IF s # <<>> /\ AllDigits(s) THEN Some(10 * DecimalVal(s))
        ELSE IF Cardinality(dots) = 1
             THEN LET d == CHOOSE i \in dots : TRUE
                      whole == SubSeq(s, 1, d - 1)
                      frac == SubSeq(s, d + 1, Len(s))
                  IN  IF AllDigits(whole) /\ AllDigits(frac) /\ Len(frac) <= 1
                         /\ Len(whole) + Len(frac) > 0
                      THEN Some(10 * DecimalVal(whole) + DecimalVal(frac))
                      ELSE None
        ELSE None

\* ------------------------------------------------------------ User model
is_admin(u) == users[u].role = "admin"

is_authenticated_legacy(u) == TRUE

\* current_user.is_authenticated of a logged-in user: the UserMixin property
\* returns is_active, which the model class defines as a column
is_authenticated(u) == users[u].is_active
is_creator(u) == users[u].role \in {"admin", "creator"}

\* mutant: a private questionnaire is closed to its creator
can_access_questionnaire_mut(u, q) ==
    IF is_admin(u) THEN TRUE
    ELSE IF questionnaires[q].is_public THEN TRUE
    ELSE FALSE

can_access_questionnaire(u, q) ==
    IF is_admin(u) THEN TRUE
    ELSE IF questionnaires[q].creator_id = u THEN TRUE
    ELSE IF questionnaires[q].is_public THEN TRUE
    ELSE FALSE

\* mutant: the creator role grants edit rights
can_edit_questionnaire_mut(u, q) ==
    IF is_creator(u) THEN TRUE
    ELSE questionnaires[q].creator_id = u

can_edit_questionnaire(u, q) ==
    IF is_admin(u) THEN TRUE
    ELSE questionnaires[q].creator_id = u

\* --------------------------------------------------- Questionnaire model
QuestionsOf(q) == {i \in DOMAIN questions : questions[i].questionnaire_id = q}
ResponsesOf(q) == {r \in DOMAIN responses : responses[r].questionnaire_id = q}
AnswersOf(r) == {a \in DOMAIN answers : answers[a].response_id = r}

RECURSIVE OrderBy(_)
OrderBy(S) ==
    IF S = {} THEN <<>>
    ELSE LET m == CHOOSE i \in S : \A j \in S :
                      \/ questions[i].order_index < questions[j].order_index
                      \/ questions[i].order_index = questions[j].order_index /\ i <= j
         IN  <<m>> \o OrderBy(S \ {m})

get_questions(q) == OrderBy(QuestionsOf(q))

\* mutant: nobody has ever responded
user_has_responded_never(q, user_id) == FALSE

\* mutant: a draft counts as having responded
user_has_responded_mut(q, user_id) ==
    IF user_id = NoUser THEN FALSE
    ELSE \E r \in DOMAIN responses :
            responses[r].questionnaire_id = q /\ responses[r].user_id = user_id

user_has_responded(q, user_id) ==
    IF user_id = NoUser THEN FALSE
    ELSE \E r \in ResponsesOf(q) : responses[r].user_id = user_id /\ responses[r].is_complete

can_user_respond(q, user) ==
    IF ~questionnaires[q].is_active THEN FALSE
    ELSE IF user = NoUser /\ ~questionnaires[q].allow_anonymous THEN FALSE
    ELSE IF user # NoUser /\ ~questionnaires[q].allow_multiple_responses
            /\ user_has_responded(q, user) THEN FALSE
    ELSE TRUE

\* str.split(',')
RECURSIVE SplitComma(_)
SplitComma(s) ==
    LET commas == {i \in 1..Len(s) : s[i] = ","}
    IN  IF commas = {} THEN <<s>>
        ELSE <<SubSeq(s, 1, Min(commas) - 1)>> \o SplitComma(SubSeq(s, Min(commas) + 1, Len(s)))

\* [v.strip() for v in values]
RECURSIVE StripAll(_)
StripAll(values) ==
    IF values = <<>> THEN <<>> ELSE <<Strip(values[1])>> \o StripAll(Tail(values))

\* str(n) of a natural number
RECURSIVE Str(_)
Str(n) == IF n < 10 THEN <<Digits[n + 1]>> ELSE Str(n \div 10) \o <<Digits[(n % 10) + 1]>>

\* dist[key] = dist.get(key, 0) + 1
Bump(dist, key) ==
    IF key \in DOMAIN dist THEN [dist EXCEPT ![key] = @ + 1] ELSE Insert(dist, key, 1)

\* for value in values: if value: count it
RECURSIVE CountValues(_, _)
CountValues(dist, values) ==
    IF values = <<>> THEN dist
    ELSE IF values[1] # <<>> THEN CountValues(Bump(dist, values[1]), Tail(values))
    ELSE CountValues(dist, Tail(values))

\* the keys of S in increasing order
RECURSIVE Ascending(_)
Ascending(S) == IF S = {} THEN <<>> ELSE <<Min(S)>> \o Ascending(S \ {Min(S)})

\* mutant: the answers of drafts are counted too
CompleteAnswers_all(q) ==
    Ascending({a \in DOMAIN answers : answers[a].question_id = q})

\* self.answers.join(Response).filter(Response.is_complete == True).all(),
\* in primary key order
CompleteAnswers(q) ==
    Ascending({a \in DOMAIN answers :
                  /\ answers[a].question_id = q
                  /\ answers[a].response_id \in DOMAIN responses
                  /\ responses[answers[a].response_id].is_complete})

\* the loop over the answers of a choice question
RECURSIVE ChoiceDistribution(_, _)
ChoiceDistribution(dist, as) ==
    IF as = <<>> THEN dist
    ELSE IF Truthy(answers[as[1]].answer_text)
    THEN ChoiceDistribution(
            CountValues(dist, StripAll(SplitComma(answers[as[1]].answer_text[1]))), Tail(as))
    ELSE ChoiceDistribution(dist, Tail(as))

\* the loop over the answers of a scale question; int() of a float in tenths
RECURSIVE ScaleDistribution(_, _)
ScaleDistribution(dist, as) ==
    IF as = <<>> THEN dist
    ELSE IF answers[as[1]].answer_value # None
    THEN ScaleDistribution(Bump(dist, Str(answers[as[1]].answer_value[1] \div 10)), Tail(as))
    ELSE ScaleDistribution(dist, Tail(as))

\* answers[:10]
SampleLimit == 10

\* [a.answer_text for a in answers[:10] if a.answer_text]
RECURSIVE SampleResponses(_)
SampleResponses(as) ==
    IF as = <<>> THEN <<>>
    ELSE IF Truthy(answers[as[1]].answer_text)
    THEN <<answers[as[1]].answer_text[1]>> \o SampleResponses(Tail(as))
    ELSE SampleResponses(Tail(as))

\* Question.get_answer_statistics: the key sample_responses exists for an
\* open_ended question only
get_answer_statistics(q) ==
    LET as == CompleteAnswers(q)
        type == questions[q].question_type
    IN  [total_answers |-> Len(as),
         answer_distribution |->
            IF type \in {"single_choice", "multiple_choice"} THEN ChoiceDistribution(EmptyTable, as)
            ELSE IF type = "scale_1_5" THEN ScaleDistribution(EmptyTable, as)
            ELSE EmptyTable,
         sample_responses |->
            IF type = "open_ended"
            THEN Some(SampleResponses(SubSeq(as, 1, Min({Len(as), SampleLimit}))))
            ELSE None]

\* -------------------------------------------------------- Response model
\* round(x, 2) of the quotient num / den, in hundredths
Round2(num, den) == (2 * num * 100 + den) \div (2 * den)

\* mutant: the drafts are left out of the total
get_completion_rate_mut(q) ==
    LET complete_responses == Cardinality({r \in ResponsesOf(q) : responses[r].is_complete})
    IN  IF complete_responses = 0 THEN 0
        ELSE Round2(complete_responses * 100, complete_responses)

\* in hundredths of a percent point
get_completion_rate(q) ==
    LET total_responses == Cardinality(ResponsesOf(q))
        complete_responses == Cardinality({r \in ResponsesOf(q) : responses[r].is_complete})
    IN  IF total_responses = 0 THEN 0
        ELSE Round2(complete_responses * 100, total_responses)

\* mutant: every answer of the response counts as an answered required
\* question
get_completion_percentage_mut(r) ==
    LET required == {i \in QuestionsOf(responses[r].questionnaire_id) : questions[i].is_required}
    IN  IF Cardinality(required) = 0
        THEN (IF Cardinality(AnswersOf(r)) > 0 THEN 100 * 100 ELSE 0)
        ELSE Round2(Min({Cardinality(AnswersOf(r)), Cardinality(required)}) * 100,
                    Cardinality(required))

\* in hundredths of a percent point: 100.0 is 10000
get_completion_percentage(r) ==
    LET required == {i \in QuestionsOf(responses[r].questionnaire_id) : questions[i].is_required}
        answered == {i \in required : \E a \in AnswersOf(r) : answers[a].question_id = i}
    IN  IF Cardinality(required) = 0
        THEN (IF Cardinality(AnswersOf(r)) > 0 THEN 100 * 100 ELSE 0)
        ELSE Round2(Cardinality(answered) * 100, Cardinality(required))

can_be_edited(r) == IF ~responses[r].is_complete THEN TRUE ELSE FALSE

\* mutant: a scale value is kept as text
set_value_mut(row, value, question_type) ==
    [row EXCEPT !.answer_text = Some(value), !.answer_value = None]

\* mutant: the field of the other kind is kept
set_value_keep(row, value, question_type) ==
    IF question_type = "scale_1_5"
    THEN [row EXCEPT !.answer_value = ParseFloat(value)]
    ELSE [row EXCEPT !.answer_text = Some(value)]

\* mutant: a scale value that does not parse is kept as text
set_value_raw(row, value, question_type) ==
    IF question_type = "scale_1_5" /\ ParseFloat(value) # None
    THEN [row EXCEPT !.answer_value = ParseFloat(value), !.answer_text = None]
    ELSE [row EXCEPT !.answer_text = Some(value), !.answer_value = None]

\* Answer.set_value on a row
set_value(row, value, question_type) ==
    IF question_type = "scale_1_5"
    THEN [row EXCEPT !.answer_value = ParseFloat(value), !.answer_text = None]
    ELSE [row EXCEPT !.answer_text = Some(value), !.answer_value = None]

\* ------------------------------------------------------- request outcome
Outcome(op, actor, id, status, rid, flashes, form, save_draft) ==
    [op |-> op, actor |-> actor, id |-> id, status |-> status, rid |-> rid,
     flashes |-> flashes, form |-> form, save_draft |-> save_draft]

Served(op, actor, id, status) == Outcome(op, actor, id, status, 0, 0, EmptyForm, FALSE)

Tick == now < MaxClock /\ now' = now + 1

\* --------------------------------------------------- questionnaire routes
FormGet(form, i) == IF i \in DOMAIN form /\ form[i] # <<>> THEN Some(form[i][1]) ELSE None
FormGetList(form, i) == IF i \in DOMAIN form THEN form[i] ELSE <<>>

\* mutant: a required question without a value is skipped silently
RECURSIVE ProcessAnswers_mut(_, _, _, _)
ProcessAnswers_mut(qs, rid, form, acc) ==
    IF qs = <<>> THEN acc
    ELSE LET question == questions[qs[1]]
             answer_value == FormGet(form, qs[1])
             existing == {a \in DOMAIN acc.answers :
                            acc.answers[a].response_id = rid /\ acc.answers[a].question_id = qs[1]}
             aid == IF existing = {} THEN NextId(acc.answers) ELSE Min(existing)
             row == IF existing = {}
                    THEN [response_id |-> rid, question_id |-> qs[1],
                          answer_text |-> None, answer_value |-> None]
                    ELSE acc.answers[aid]
             value == IF question.question_type = "multiple_choice"
                      THEN Join(FormGetList(form, qs[1]))
                      ELSE answer_value[1]
         IN  IF Truthy(answer_value)
             THEN ProcessAnswers_mut(Tail(qs), rid, form,
                      [acc EXCEPT !.answers = Insert(@, aid, set_value(row, value, question.question_type))])
             ELSE ProcessAnswers_mut(Tail(qs), rid, form, acc)

\* mutant: every submitted value is stored in a new Answer row
RECURSIVE ProcessAnswers_dup(_, _, _, _)
ProcessAnswers_dup(qs, rid, form, acc) ==
    IF qs = <<>> THEN acc
    ELSE LET question == questions[qs[1]]
             answer_value == FormGet(form, qs[1])
             row == [response_id |-> rid, question_id |-> qs[1],
                     answer_text |-> None, answer_value |-> None]
             value == IF question.question_type = "multiple_choice"
                      THEN Join(FormGetList(form, qs[1]))
                      ELSE answer_value[1]
         IN  IF question.is_required /\ ~Truthy(answer_value)
             THEN ProcessAnswers_dup(Tail(qs), rid, form, [acc EXCEPT !.flashes = @ + 1])
             ELSE IF Truthy(answer_value)
             THEN ProcessAnswers_dup(Tail(qs), rid, form,
                      [acc EXCEPT !.answers = Insert(@, NextId(@),
                                        set_value(row, value, question.question_type))])
             ELSE ProcessAnswers_dup(Tail(qs), rid, form, acc)

\* mutant: an empty value for an optional question removes the saved answer
RECURSIVE ProcessAnswers_clear(_, _, _, _)
ProcessAnswers_clear(qs, rid, form, acc) ==
    IF qs = <<>> THEN acc
    ELSE LET question == questions[qs[1]]
             answer_value == FormGet(form, qs[1])
             existing == {a \in DOMAIN acc.answers :
                            acc.answers[a].response_id = rid /\ acc.answers[a].question_id = qs[1]}
             aid == IF existing = {} THEN NextId(acc.answers) ELSE Min(existing)
             row == IF existing = {}
                    THEN [response_id |-> rid, question_id |-> qs[1],
                          answer_text |-> None, answer_value |-> None]
                    ELSE acc.answers[aid]
             value == IF question.question_type = "multiple_choice"
                      THEN Join(FormGetList(form, qs[1]))
                      ELSE answer_value[1]
         IN  IF question.is_required /\ ~Truthy(answer_value)
             THEN ProcessAnswers_clear(Tail(qs), rid, form, [acc EXCEPT !.flashes = @ + 1])
             ELSE IF Truthy(answer_value)
             THEN ProcessAnswers_clear(Tail(qs), rid, form,
                      [acc EXCEPT !.answers = Insert(@, aid, set_value(row, value, question.question_type))])
             ELSE ProcessAnswers_clear(Tail(qs), rid, form,
                      [acc EXCEPT !.answers = Remove(@, existing)])

\* the loop of respond over the questions: acc is the answers table and the
\* number of flashed messages so far
RECURSIVE ProcessAnswers(_, _, _, _)
ProcessAnswers(qs, rid, form, acc) ==
    IF qs = <<>> THEN acc
    ELSE LET question == questions[qs[1]]
             answer_value == FormGet(form, qs[1])
             existing == {a \in DOMAIN acc.answers :
                            acc.answers[a].response_id = rid /\ acc.answers[a].question_id = qs[1]}
             aid == IF existing = {} THEN NextId(acc.answers) ELSE Min(existing)
             row == IF existing = {}
                    THEN [response_id |-> rid, question_id |-> qs[1],
                          answer_text |-> None, answer_value |-> None]
                    ELSE acc.answers[aid]
             value == IF question.question_type = "multiple_choice"
                      THEN Join(FormGetList(form, qs[1]))
                      ELSE answer_value[1]
         IN  IF question.is_required /\ ~Truthy(answer_value)
             THEN ProcessAnswers(Tail(qs), rid, form, [acc EXCEPT !.flashes = @ + 1])
             ELSE IF Truthy(answer_value)
             THEN ProcessAnswers(Tail(qs), rid, form,
                      [acc EXCEPT !.answers = Insert(@, aid, set_value(row, value, question.question_type))])
             ELSE ProcessAnswers(Tail(qs), rid, form, acc)

\* mutant: the lookup also returns a complete response of the user
DraftsOf_any(q, user) == {r \in ResponsesOf(q) : responses[r].user_id = user}

\* mutant: the lookup never finds the draft
DraftsOf_mut(q, user) == {}

DraftsOf(q, user) ==
    {r \in ResponsesOf(q) : responses[r].user_id = user /\ ~responses[r].is_complete}

\* mutant: an invalid submission is committed as a draft
RespondPost_mut(actor, id, form, save_draft, found) ==
    LET fresh == found = {}
        rid == IF fresh THEN NextId(responses) ELSE CHOOSE r \in found : TRUE
        row == IF fresh
               THEN [questionnaire_id |-> id, user_id |-> actor,
                     is_complete |-> FALSE, submitted_at |-> now']
               ELSE responses[rid]
        acc == ProcessAnswers(get_questions(id), rid, form,
                              [answers |-> answers, flashes |-> 0])
    IN  /\ fresh => Cardinality(DOMAIN responses) < MaxResponses
        /\ answers' = acc.answers
        /\ IF acc.flashes = 0
           THEN IF save_draft
                THEN /\ responses' = Insert(responses, rid, row)
                     /\ last' = Outcome("respond", actor, id, "draft", rid, 1, form, save_draft)
                ELSE /\ responses' = Insert(responses, rid,
                             [row EXCEPT !.is_complete = TRUE, !.submitted_at = now'])
                     /\ last' = Outcome("respond", actor, id, "complete", rid, 1, form, save_draft)
           ELSE /\ responses' = Insert(responses, rid, row)
                /\ last' = Outcome("respond", actor, id, "invalid", rid, acc.flashes, form, save_draft)

\* the POST branch of respond once the draft lookup has returned found
\* (a set holding the draft, or empty)
RespondPost(actor, id, form, save_draft, found) ==
    LET fresh == found = {}
        rid == IF fresh THEN NextId(responses) ELSE CHOOSE r \in found : TRUE
        row == IF fresh
               THEN [questionnaire_id |-> id, user_id |-> actor,
                     is_complete |-> FALSE, submitted_at |-> now']
               ELSE responses[rid]
        acc == ProcessAnswers(get_questions(id), rid, form,
                              [answers |-> answers, flashes |-> 0])
    IN  /\ fresh => Cardinality(DOMAIN responses) < MaxResponses
        /\ IF acc.flashes = 0
           THEN /\ answers' = acc.answers
                /\ IF save_draft
                   THEN \* is_complete is False on the looked-up draft and on a new row
                        /\ responses' = Insert(responses, rid, row)
                        /\ last' = Outcome("respond", actor, id, "draft", rid, 1, form, save_draft)
                   ELSE /\ responses' = Insert(responses, rid,
                                [row EXCEPT !.is_complete = TRUE, !.submitted_at = now'])
                        /\ last' = Outcome("respond", actor, id, "complete", rid, 1, form, save_draft)
           ELSE \* db.session.rollback()
                /\ UNCHANGED <<responses, answers>>
                /\ last' = Outcome("respond", actor, id, "invalid", rid, acc.flashes, form, save_draft)

RespondDenied(actor, id) ==
    IF actor = NoUser /\ ~questionnaires[id].allow_anonymous THEN "login"
    ELSE IF actor # NoUser /\ ~questionnaires[id].allow_multiple_responses
            /\ user_has_responded(id, actor) THEN "already"
    ELSE "cannot"

\* mutant: the draft lookup also runs for an anonymous visitor
Respond_anon(actor, id, method, form, save_draft) ==
    /\ Tick
    /\ UNCHANGED <<users, questionnaires, questions, inflight>>
    /\ IF id \notin DOMAIN questionnaires
       THEN /\ last' = Outcome("respond", actor, id, "404", 0, 0, form, save_draft)
            /\ UNCHANGED <<responses, answers>>
       ELSE IF ~questionnaires[id].is_active
       THEN /\ last' = Outcome("respond", actor, id, "inactive", 0, 1, form, save_draft)
            /\ UNCHANGED <<responses, answers>>
       ELSE IF ~can_user_respond(id, actor)
       THEN /\ last' = Outcome("respond", actor, id, RespondDenied(actor, id), 0, 1, form, save_draft)
            /\ UNCHANGED <<responses, answers>>
       ELSE IF method = "GET"
       THEN /\ last' = Outcome("respond", actor, id, "form", 0, 0, form, save_draft)
            /\ UNCHANGED <<responses, answers>>
       ELSE LET drafts == DraftsOf(id, actor)
            IN  IF drafts = {}
                THEN RespondPost(actor, id, form, save_draft, {})
                ELSE \E r \in drafts : RespondPost(actor, id, form, save_draft, {r})

Respond(actor, id, method, form, save_draft) ==
    /\ Tick
    /\ UNCHANGED <<users, questionnaires, questions, inflight>>
    /\ IF id \notin DOMAIN questionnaires
       THEN /\ last' = Outcome("respond", actor, id, "404", 0, 0, form, save_draft)
            /\ UNCHANGED <<responses, answers>>
       ELSE IF ~questionnaires[id].is_active
       THEN /\ last' = Outcome("respond", actor, id, "inactive", 0, 1, form, save_draft)
            /\ UNCHANGED <<responses, answers>>
       ELSE IF ~can_user_respond(id, actor)
       THEN /\ last' = Outcome("respond", actor, id, RespondDenied(actor, id), 0, 1, form, save_draft)
            /\ UNCHANGED <<responses, answers>>
       ELSE IF method = "GET"
       THEN /\ last' = Outcome("respond", actor, id, "form", 0, 0, form, save_draft)
            /\ UNCHANGED <<responses, answers>>
       ELSE LET drafts == IF actor # NoUser THEN DraftsOf(id, actor) ELSE {}
            IN  IF drafts = {}
                THEN RespondPost(actor, id, form, save_draft, {})
                ELSE \E r \in drafts : RespondPost(actor, id, form, save_draft, {r})

view(actor, id) ==
    /\ Tick
    /\ UNCHANGED <<users, questionnaires, questions, responses, answers, inflight>>
    /\ IF id \notin DOMAIN questionnaires
       THEN last' = Served("view", actor, id, "404")
       ELSE IF actor # NoUser
       THEN IF ~can_access_questionnaire(actor, id)
            THEN last' = Served("view", actor, id, "403")
            ELSE last' = Served("view", actor, id, "200")
       ELSE IF ~questionnaires[id].is_public
            THEN last' = Served("view", actor, id, "403")
            ELSE last' = Served("view", actor, id, "200")

edit(actor, id) ==
    /\ Tick
    /\ UNCHANGED <<users, questionnaires, questions, responses, answers, inflight>>
    /\ IF actor = NoUser
       THEN last' = Served("edit", actor, id, "login")
       ELSE IF id \notin DOMAIN questionnaires
       THEN last' = Served("edit", actor, id, "404")
       ELSE IF ~can_edit_questionnaire(actor, id)
       THEN last' = Served("edit", actor, id, "denied")
       ELSE last' = Served("edit", actor, id, "200")

create(actor, is_public, allow_anonymous, allow_multiple_responses) ==
    /\ Tick
    /\ UNCHANGED <<users, questions, responses, answers, inflight>>
    /\ IF actor = NoUser
       THEN /\ last' = Served("create", actor, 0, "login")
            /\ UNCHANGED questionnaires
       ELSE IF ~is_creator(actor)
       THEN /\ last' = Served("create", actor, 0, "denied")
            /\ UNCHANGED questionnaires
       ELSE /\ questionnaires' = Insert(questionnaires, NextId(questionnaires),
                    [creator_id |-> actor, is_active |-> TRUE, is_public |-> is_public,
                     allow_anonymous |-> allow_anonymous,
                     allow_multiple_responses |-> allow_multiple_responses])
            /\ last' = Served("create", actor, NextId(questionnaires), "ok")

\* mutant: the responses of the questionnaire and their answers are kept
delete_mut(actor, id) ==
    /\ Tick
    /\ UNCHANGED <<users, inflight>>
    /\ IF actor = NoUser
       THEN /\ last' = Served("delete", actor, id, "login")
            /\ UNCHANGED <<questionnaires, questions, responses, answers>>
       ELSE IF id \notin DOMAIN questionnaires
       THEN /\ last' = Served("delete", actor, id, "404")
            /\ UNCHANGED <<questionnaires, questions, responses, answers>>
       ELSE IF ~can_edit_questionnaire(actor, id)
       THEN /\ last' = Served("delete", actor, id, "denied")
            /\ UNCHANGED <<questionnaires, questions, responses, answers>>
       ELSE /\ questionnaires' = Remove(questionnaires, {id})
            /\ questions' = Remove(questions, QuestionsOf(id))
            /\ UNCHANGED <<responses, answers>>
            /\ last' = Served("delete", actor, id, "ok")

delete(actor, id) ==
    /\ Tick
    /\ UNCHANGED <<users, inflight>>
    /\ IF actor = NoUser
       THEN /\ last' = Served("delete", actor, id, "login")
            /\ UNCHANGED <<questionnaires, questions, responses, answers>>
       ELSE IF id \notin DOMAIN questionnaires
       THEN /\ last' = Served("delete", actor, id, "404")
            /\ UNCHANGED <<questionnaires, questions, responses, answers>>
       ELSE IF ~can_edit_questionnaire(actor, id)
       THEN /\ last' = Served("delete", actor, id, "denied")
            /\ UNCHANGED <<questionnaires, questions, responses, answers>>
       ELSE /\ questionnaires' = Remove(questionnaires, {id})
            /\ questions' = Remove(questions, QuestionsOf(id))
            /\ responses' = Remove(responses, ResponsesOf(id))
            /\ answers' = Remove(answers, {a \in DOMAIN answers :
                              \/ answers[a].question_id \in QuestionsOf(id)
                              \/ answers[a].response_id \in ResponsesOf(id)})
            /\ last' = Served("delete", actor, id, "ok")

settings(actor, id, form) ==
    /\ Tick
    /\ UNCHANGED <<users, questions, responses, answers, inflight>>
    /\ IF actor = NoUser
       THEN /\ last' = Served("settings", actor, id, "login")
            /\ UNCHANGED questionnaires
       ELSE IF id \notin DOMAIN questionnaires
       THEN /\ last' = Served("settings", actor, id, "404")
            /\ UNCHANGED questionnaires
       ELSE IF ~can_edit_questionnaire(actor, id)
       THEN /\ last' = Served("settings", actor, id, "denied")
            /\ UNCHANGED questionnaires
       ELSE /\ questionnaires' = [questionnaires EXCEPT ![id] =
                    [creator_id |-> @.creator_id, is_active |-> form.is_active,
                     is_public |-> form.is_public, allow_anonymous |-> form.allow_anonymous,
                     allow_multiple_responses |-> form.allow_multiple_responses]]
            /\ last' = Served("settings", actor, id, "ok")

SettingsForms ==
    [is_active : BOOLEAN, is_public : BOOLEAN, allow_anonymous : BOOLEAN,
     allow_multiple_responses : BOOLEAN]

\* ------------------------------------------------------------- api routes
\* mutant: blank options are kept
RECURSIVE StripOptions_mut(_)
StripOptions_mut(opts) ==
    IF opts = <<>> THEN <<>>
    ELSE <<Strip(opts[1])>> \o StripOptions_mut(Tail(opts))

\* [opt.strip() for opt in options if opt.strip()]
RECURSIVE StripOptions(_)
StripOptions(opts) ==
    IF opts = <<>> THEN <<>>
    ELSE IF Strip(opts[1]) # <<>> THEN <<Strip(opts[1])>> \o StripOptions(Tail(opts))
    ELSE StripOptions(Tail(opts))

\* the options setter: the stored options_json, the list standing for its
\* JSON text
OptionsJson(value) == IF value # <<>> THEN Some(value) ELSE None

\* data is the JSON body: [questionnaire_id, question_type, is_required,
\* options], the last three Optional (absent keys)
create_question(actor, data) ==
    LET id == data.questionnaire_id
        max_order == IF QuestionsOf(id) = {} THEN 0
                     ELSE Max({questions[i].order_index : i \in QuestionsOf(id)})
        question_type == IF data.question_type = None THEN "open_ended" ELSE data.question_type[1]
        question == [questionnaire_id |-> id,
                     question_type |-> question_type,
                     is_required |-> IF data.is_required = None THEN FALSE ELSE data.is_required[1],
                     order_index |-> max_order + 1,
                     options_json |->
                        IF data.options # None /\ data.options[1] # <<>>
                           /\ question_type \in {"single_choice", "multiple_choice"}
                        THEN OptionsJson(StripOptions(data.options[1]))
                        ELSE None]
    IN  /\ Tick
        /\ UNCHANGED <<users, questionnaires, responses, answers, inflight>>
        /\ IF actor = NoUser
           THEN /\ last' = Served("create_question", actor, id, "login")
                /\ UNCHANGED questions
           ELSE IF id \notin DOMAIN questionnaires
           THEN /\ last' = Served("create_question", actor, id, "404")
                /\ UNCHANGED questions
           ELSE IF ~can_edit_questionnaire(actor, id)
           THEN /\ last' = Served("create_question", actor, id, "403")
                /\ UNCHANGED questions
           ELSE /\ Cardinality(DOMAIN questions) < MaxQuestions
                /\ questions' = Insert(questions, NextId(questions), question)
                /\ last' = Served("create_question", actor, id, "ok")

update_question(actor, question_id, data) ==
    /\ Tick
    /\ UNCHANGED <<users, questionnaires, responses, answers, inflight>>
    /\ IF actor = NoUser
       THEN /\ last' = Served("update_question", actor, 0, "login")
            /\ UNCHANGED questions
       ELSE IF question_id \notin DOMAIN questions
       THEN /\ last' = Served("update_question", actor, 0, "404")
            /\ UNCHANGED questions
       ELSE LET question == questions[question_id]
                id == question.questionnaire_id
                question_type == IF data.question_type = None THEN question.question_type
                                 ELSE data.question_type[1]
            IN  IF ~can_edit_questionnaire(actor, id)
                THEN /\ last' = Served("update_question", actor, id, "403")
                     /\ UNCHANGED questions
                ELSE /\ questions' = [questions EXCEPT ![question_id] =
                            [questionnaire_id |-> id,
                             question_type |-> question_type,
                             is_required |-> IF data.is_required = None THEN question.is_required
                                             ELSE data.is_required[1],
                             order_index |-> question.order_index,
                             options_json |->
                                IF data.options # None /\ data.options[1] # <<>>
                                   /\ question_type \in {"single_choice", "multiple_choice"}
                                THEN OptionsJson(StripOptions(data.options[1]))
                                ELSE OptionsJson(<<>>)]]
                     /\ last' = Served("update_question", actor, id, "ok")

delete_question(actor, question_id) ==
    /\ Tick
    /\ UNCHANGED <<users, questionnaires, responses, inflight>>
    /\ IF actor = NoUser
       THEN /\ last' = Served("delete_question", actor, 0, "login")
            /\ UNCHANGED <<questions, answers>>
       ELSE IF question_id \notin DOMAIN questions
       THEN /\ last' = Served("delete_question", actor, 0, "404")
            /\ UNCHANGED <<questions, answers>>
       ELSE LET id == questions[question_id].questionnaire_id
            IN  IF ~can_edit_questionnaire(actor, id)
                THEN /\ last' = Served("delete_question", actor, id, "403")
                     /\ UNCHANGED <<questions, answers>>
                ELSE /\ questions' = Remove(questions, {question_id})
                     /\ answers' = Remove(answers,
                            {a \in DOMAIN answers : answers[a].question_id = question_id})
                     /\ last' = Served("delete_question", actor, id, "ok")

\* the loop of reorder_questions over enumerate(question_ids)
RECURSIVE ReorderLoop(_, _, _, _)
ReorderLoop(tbl, id, question_ids, index) ==
    IF index >= Len(question_ids) THEN tbl
    ELSE LET question_id == question_ids[index + 1]
         IN  IF question_id \in DOMAIN tbl /\ tbl[question_id].questionnaire_id = id
             THEN ReorderLoop([tbl EXCEPT ![question_id].order_index = index],
                              id, question_ids, index + 1)
             ELSE ReorderLoop(tbl, id, question_ids, index + 1)

\* an element of question_ids that is no primary key (a JSON list, say):
\* Question.query.get raises on it
BadId == -1

\* the elements of question_ids before the first one the loop raises on
Applied(question_ids) ==
    LET bad == {k \in 1..Len(question_ids) : question_ids[k] = BadId}
    IN  IF bad = {} THEN question_ids ELSE SubSeq(question_ids, 1, Min(bad) - 1)

\* mutant: the changes made before the loop raised are committed
reorder_questions_partial(actor, id, question_ids) ==
    /\ Tick
    /\ UNCHANGED <<users, questionnaires, responses, answers, inflight>>
    /\ IF actor = NoUser
       THEN /\ last' = Served("reorder_questions", actor, id, "login")
            /\ UNCHANGED questions
       ELSE IF id \notin DOMAIN questionnaires
       THEN /\ last' = Served("reorder_questions", actor, id, "404")
            /\ UNCHANGED questions
       ELSE IF ~can_edit_questionnaire(actor, id)
       THEN /\ last' = Served("reorder_questions", actor, id, "403")
            /\ UNCHANGED questions
       ELSE IF Applied(question_ids) # question_ids
       THEN /\ questions' = ReorderLoop(questions, id, Applied(question_ids), 0)
            /\ last' = Outcome("reorder_questions", actor, id, "500", 0, 0, question_ids, FALSE)
       ELSE /\ questions' = ReorderLoop(questions, id, question_ids, 0)
            /\ last' = Outcome("reorder_questions", actor, id, "ok", 0, 0, question_ids, FALSE)

\* the changes of the loop stay in the session until the commit that
\* follows it; when the loop raises, the request ends without a commit and
\* the session is discarded. The outcome keeps question_ids.
reorder_questions(actor, id, question_ids) ==
    /\ Tick
    /\ UNCHANGED <<users, questionnaires, responses, answers, inflight>>
    /\ IF actor = NoUser
       THEN /\ last' = Served("reorder_questions", actor, id, "login")
            /\ UNCHANGED questions
       ELSE IF id \notin DOMAIN questionnaires
       THEN /\ last' = Served("reorder_questions", actor, id, "404")
            /\ UNCHANGED questions
       ELSE IF ~can_edit_questionnaire(actor, id)
       THEN /\ last' = Served("reorder_questions", actor, id, "403")
            /\ UNCHANGED questions
       ELSE IF Applied(question_ids) # question_ids
       THEN /\ UNCHANGED questions
            /\ last' = Outcome("reorder_questions", actor, id, "500", 0, 0, question_ids, FALSE)
       ELSE /\ questions' = ReorderLoop(questions, id, question_ids, 0)
            /\ last' = Outcome("reorder_questions", actor, id, "ok", 0, 0, question_ids, FALSE)

\* mutant: any user holding the creator role may delete a response
delete_response_mut(actor, response_id) ==
    /\ Tick
    /\ UNCHANGED <<users, questionnaires, questions, inflight>>
    /\ IF actor = NoUser
       THEN /\ last' = Served("delete_response", actor, 0, "login")
            /\ UNCHANGED <<responses, answers>>
       ELSE IF response_id \notin DOMAIN responses
       THEN /\ last' = Served("delete_response", actor, 0, "404")
            /\ UNCHANGED <<responses, answers>>
       ELSE LET id == responses[response_id].questionnaire_id
            IN  IF ~is_creator(actor)
                THEN /\ last' = Served("delete_response", actor, id, "403")
                     /\ UNCHANGED <<responses, answers>>
                ELSE /\ responses' = Remove(responses, {response_id})
                     /\ answers' = Remove(answers, AnswersOf(response_id))
                     /\ last' = Outcome("delete_response", actor, id, "ok", response_id,
                                        0, EmptyForm, FALSE)

delete_response(actor, response_id) ==
    /\ Tick
    /\ UNCHANGED <<users, questionnaires, questions, inflight>>
    /\ IF actor = NoUser
       THEN /\ last' = Served("delete_response", actor, 0, "login")
            /\ UNCHANGED <<responses, answers>>
       ELSE IF response_id \notin DOMAIN responses
       THEN /\ last' = Served("delete_response", actor, 0, "404")
            /\ UNCHANGED <<responses, answers>>
       ELSE LET id == responses[response_id].questionnaire_id
            IN  IF ~can_edit_questionnaire(actor, id)
                THEN /\ last' = Served("delete_response", actor, id, "403")
                     /\ UNCHANGED <<responses, answers>>
                ELSE /\ responses' = Remove(responses, {response_id})
                     /\ answers' = Remove(answers, AnswersOf(response_id))
                     /\ last' = Outcome("delete_response", actor, id, "ok", response_id,
                                        0, EmptyForm, FALSE)

\* ----------------------------------------------------------- admin routes
\* the admin_required decorator under login_required
admin_required(actor) == actor # NoUser /\ is_authenticated(actor) /\ is_admin(actor)

toggle_questionnaire_status(actor, id) ==
    /\ Tick
    /\ UNCHANGED <<users, questions, responses, answers, inflight>>
    /\ IF ~admin_required(actor)
       THEN /\ last' = Served("toggle_questionnaire_status", actor, id, "denied")
            /\ UNCHANGED questionnaires
       ELSE IF id \notin DOMAIN questionnaires
       THEN /\ last' = Served("toggle_questionnaire_status", actor, id, "404")
            /\ UNCHANGED questionnaires
       ELSE /\ questionnaires' = [questionnaires EXCEPT ![id].is_active = ~@]
            /\ last' = Served("toggle_questionnaire_status", actor, id, "ok")

change_user_role(actor, user_id, new_role) ==
    /\ Tick
    /\ UNCHANGED <<questionnaires, questions, responses, answers, inflight>>
    /\ IF ~admin_required(actor)
       THEN /\ last' = Served("change_user_role", actor, user_id, "denied")
            /\ UNCHANGED users
       ELSE IF user_id \notin DOMAIN users
       THEN /\ last' = Served("change_user_role", actor, user_id, "404")
            /\ UNCHANGED users
       ELSE IF new_role \notin {"user", "creator", "admin"}
       THEN /\ last' = Served("change_user_role", actor, user_id, "invalid")
            /\ UNCHANGED users
       ELSE IF user_id = actor /\ new_role # "admin"
       THEN /\ last' = Served("change_user_role", actor, user_id, "own")
            /\ UNCHANGED users
       ELSE /\ users' = [users EXCEPT ![user_id].role = new_role]
            /\ last' = Served("change_user_role", actor, user_id, "ok")

toggle_user_status(actor, user_id) ==
    /\ Tick
    /\ UNCHANGED <<questionnaires, questions, responses, answers, inflight>>
    /\ IF ~admin_required(actor)
       THEN /\ last' = Served("toggle_user_status", actor, user_id, "denied")
            /\ UNCHANGED users
       ELSE IF user_id \notin DOMAIN users
       THEN /\ last' = Served("toggle_user_status", actor, user_id, "404")
            /\ UNCHANGED users
       ELSE IF user_id = actor
       THEN /\ last' = Served("toggle_user_status", actor, user_id, "own")
            /\ UNCHANGED users
       ELSE /\ users' = [users EXCEPT ![user_id].is_active = ~@]
            /\ last' = Served("toggle_user_status", actor, user_id, "ok")

\* ---------------------------------------------------------- specification
Users == {1, 2, 3}
Actors == {NoUser} \cup Users

\* the database after init_db, create_admin and two registrations
InitUsers ==
    [u \in Users |-> [role |-> IF u = 1 THEN "admin" ELSE IF u = 2 THEN "creator" ELSE "user",
                      is_active |-> TRUE]]

NoRequest == Served("none", NoUser, 0, "none")

\* ------------------------------------------------------ permission policy
\* Inputs of the policy functions: every role of two users, either of them
\* the creator, every combination of flags, and user 1 with no response, a
\* draft, a complete response, or both.
PolicyUsers == {1, 2}
PolicyActors == {NoUser} \cup PolicyUsers

ResponseRow(id, user, complete) ==
    [questionnaire_id |-> id, user_id |-> user, is_complete |-> complete, submitted_at |-> 0]

PolicyResponses ==
    {EmptyTable,
     [r \in {1} |-> ResponseRow(1, 1, FALSE)],
     [r \in {1} |-> ResponseRow(1, 1, TRUE)],
     [r \in {1, 2} |-> ResponseRow(1, 1, r = 1)]}

InitPolicy ==
    /\ users \in [PolicyUsers -> [role : Roles, is_active : {TRUE}]]
    /\ questionnaires \in [{1} -> [creator_id : PolicyUsers, is_active : BOOLEAN,
                                    is_public : BOOLEAN, allow_anonymous : BOOLEAN,
                                    allow_multiple_responses : BOOLEAN]]
    /\ questions = EmptyTable
    /\ responses \in PolicyResponses
    /\ answers = EmptyTable
    /\ now = 0
    /\ last = NoRequest
    /\ inflight = EmptyTable

PolicyView == \E actor \in PolicyActors : view(actor, 1)
PolicyEdit == \E actor \in PolicyActors : edit(actor, 1)
PolicyRespond == \E actor \in PolicyActors : Respond(actor, 1, "GET", EmptyForm, FALSE)

NextPolicy ==
    \/ PolicyView
    \/ PolicyEdit
    \/ PolicyRespond

SpecPolicy == InitPolicy /\ [][NextPolicy]_vars

HasComplete(q, u) ==
    \E r \in DOMAIN responses :
        responses[r].questionnaire_id = q /\ responses[r].user_id = u /\ responses[r].is_complete

HasDraft(q, u) ==
    \E r \in DOMAIN responses :
        responses[r].questionnaire_id = q /\ responses[r].user_id = u /\ ~responses[r].is_complete

MayRespond(actor, q) ==
    /\ questionnaires[q].is_active
    /\ ~(actor = NoUser /\ ~questionnaires[q].allow_anonymous)
    /\ ~(actor # NoUser /\ ~questionnaires[q].allow_multiple_responses /\ HasComplete(q, actor))

\* C1: can_user_respond is false for an inactive questionnaire, false for no
\* actor when anonymous responses are not allowed, false for a user who has a
\* complete response when multiple responses are not allowed, and true in
\* every other case; the respond page is shown exactly to the actors for
\* which it is true.
C1_CanUserRespond ==
    /\ \A q \in DOMAIN questionnaires : \A actor \in {NoUser} \cup DOMAIN users :
            can_user_respond(q, actor) = MayRespond(actor, q)
    /\ (last.op = "respond" /\ last.id \in DOMAIN questionnaires)
            => ((last.status = "form") <=> MayRespond(last.actor, last.id))

\* a user who has only a draft, on a questionnaire without multiple
\* responses, is shown the respond page
C1_Witness ==
    /\ last.op = "respond" /\ last.status = "form" /\ last.actor # NoUser
    /\ ~questionnaires[last.id].allow_multiple_responses
    /\ HasDraft(last.id, last.actor) /\ ~HasComplete(last.id, last.actor)

\* C2: can_edit_questionnaire is true exactly for an admin and for the
\* creator of the questionnaire, whatever the visibility; the edit page is
\* opened exactly for them.
C2_CanEdit ==
    /\ \A q \in DOMAIN questionnaires : \A u \in DOMAIN users :
            can_edit_questionnaire(u, q)
                <=> (users[u].role = "admin" \/ questionnaires[q].creator_id = u)
    /\ (last.op = "edit" /\ last.actor # NoUser /\ last.id \in DOMAIN questionnaires)
            => ((last.status = "200")
                    <=> (users[last.actor].role = "admin"
                         \/ questionnaires[last.id].creator_id = last.actor))

\* a user with the creator role is refused the edit page of a public
\* questionnaire of somebody else
C2_Witness ==
    /\ last.op = "edit" /\ last.status = "denied"
    /\ users[last.actor].role = "creator"
    /\ questionnaires[last.id].is_public

MayAccess(actor, q) ==
    IF actor = NoUser THEN questionnaires[q].is_public
    ELSE \/ users[actor].role = "admin"
         \/ questionnaires[q].creator_id = actor
         \/ questionnaires[q].is_public

\* C3: view is granted exactly to an admin, to the creator, and to everybody
\* when the questionnaire is public (an anonymous actor only then); every
\* other view request ends in 403.
C3_View ==
    /\ \A q \in DOMAIN questionnaires : \A u \in DOMAIN users :
            can_access_questionnaire(u, q) <=> MayAccess(u, q)
    /\ (last.op = "view" /\ last.id \in DOMAIN questionnaires)
            => /\ MayAccess(last.actor, last.id) => last.status = "200"
               /\ ~MayAccess(last.actor, last.id) => last.status = "403"

\* the creator, holding the role user, views their own private questionnaire
C3_Witness ==
    /\ last.op = "view" /\ last.status = "200" /\ last.actor # NoUser
    /\ users[last.actor].role = "user"
    /\ questionnaires[last.id].creator_id = last.actor
    /\ ~questionnaires[last.id].is_public

\* ------------------------------------------------------- response intake
\* One questionnaire of the creator (user 2) as create leaves it, with up to
\* two questions added by create_question; users 2 and 3 and anonymous
\* visitors respond, the creator changes settings and questions and deletes
\* responses.
S3 == <<"3">>
Sabc == <<"a", "b", "c">>

QuestionRow(id, type, required, index) ==
    [questionnaire_id |-> id, question_type |-> type, is_required |-> required,
     order_index |-> index, options_json |-> None]

\* no question, one question, or a scale question followed by an open one
FlowQuestions ==
    {EmptyTable}
    \cup {[i \in {1} |-> QuestionRow(1, t, r, 1)] :
            t \in {"scale_1_5", "open_ended"}, r \in BOOLEAN}
    \cup {[i \in {1, 2} |-> IF i = 1 THEN QuestionRow(1, "scale_1_5", r[1], 1)
                                      ELSE QuestionRow(1, "open_ended", r[2], 2)] :
            r \in BOOLEAN \X BOOLEAN}

Init ==
    /\ users = InitUsers
    /\ questionnaires = [i \in {1} |->
            [creator_id |-> 2, is_active |-> TRUE, is_public |-> TRUE,
             allow_anonymous |-> FALSE, allow_multiple_responses |-> FALSE]]
    /\ questions \in FlowQuestions
    /\ responses = EmptyTable
    /\ answers = EmptyTable
    /\ now = 0
    /\ last = NoRequest
    /\ inflight = EmptyTable

FieldValues == {<<>>, <<S3>>}
Forms(id) == [QuestionsOf(id) -> FieldValues]
Respondents == {NoUser, 2, 3}

FlowSettingsForms == {f \in SettingsForms : f.is_public}

DoRespond == \E actor \in Respondents, form \in Forms(1), save_draft \in BOOLEAN :
                Respond(actor, 1, "POST", form, save_draft)
DoSettings == \E form \in FlowSettingsForms : settings(2, 1, form)
DoDeleteResponse == \E r \in DOMAIN responses : delete_response(2, r)

Next ==
    \/ DoRespond
    \/ DoSettings
    \/ DoDeleteResponse

Spec == Init /\ [][Next]_vars

\* the form carries a non-empty value for question i
Filled(form, i) == i \in DOMAIN form /\ form[i] # <<>> /\ form[i][1] # <<>>

RequiredMissing(form, id) ==
    {i \in DOMAIN questions :
        questions[i].questionnaire_id = id /\ questions[i].is_required /\ ~Filled(form, i)}

\* a POST to respond by an actor allowed to respond
Submitted == last.op = "respond" /\ last.status \in {"draft", "complete", "invalid"}

IsComplete(r) == r \in DOMAIN responses /\ responses[r].is_complete

\* C5: a final submit by an actor allowed to respond leaves its response
\* complete if and only if every required question has a non-empty value in
\* the form, and then submitted_at is the time of the request.
C5_FinalSubmit ==
    (Submitted /\ ~last.save_draft)
        => /\ IsComplete(last.rid) <=> (RequiredMissing(last.form, last.id) = {})
           /\ IsComplete(last.rid) => responses[last.rid].submitted_at = now

\* a final submit that fills the required question and leaves an optional
\* one empty completes the response
C5_Witness ==
    /\ Submitted /\ ~last.save_draft /\ IsComplete(last.rid)
    /\ \E i \in QuestionsOf(last.id) : questions[i].is_required
    /\ \E i \in QuestionsOf(last.id) : ~Filled(last.form, i)

\* C6: a submission that fails required-field validation changes no row of
\* any table and flashes one message per failing required question.
C6_AllOrNothing ==
    [][(last'.op = "respond" /\ last'.status = "invalid")
          => /\ db' = db
             /\ last'.flashes = Cardinality(RequiredMissing(last'.form, last'.id))
             /\ last'.flashes >= 1]_vars

\* the failing submission was made on an existing draft that holds an answer
\* and carried a value for another question
C6_Witness ==
    /\ last.op = "respond" /\ last.status = "invalid"
    /\ last.rid \in DOMAIN responses
    /\ \E i \in QuestionsOf(last.id) :
            /\ Filled(last.form, i)
            /\ \A a \in AnswersOf(last.rid) : answers[a].question_id # i
    /\ AnswersOf(last.rid) # {}

\* C9: with requests served one at a time, every (questionnaire, user) pair
\* has at most one response with is_complete false.
C9_OneDraft ==
    \A q \in DOMAIN questionnaires : \A u \in DOMAIN users :
        Cardinality({r \in DOMAIN responses :
                        /\ responses[r].questionnaire_id = q
                        /\ responses[r].user_id = u
                        /\ ~responses[r].is_complete}) <= 1

\* a user who already has a draft saves a draft again
C9_Witness ==
    /\ last.op = "respond" /\ last.status = "draft" /\ last.actor # NoUser
    /\ last.rid \in DOMAIN responses
    /\ responses[last.rid].submitted_at < now

\* ------------------------------------------------- the scale scenario
\* A questionnaire with one required scale_1_5 question; user 3 and
\* anonymous visitors submit numbers, text and nothing.
ScaleStr == <<<<"1">>, <<"2">>, <<"3">>, <<"4">>, <<"5">>>>
S35 == <<"3", ".", "5">>

ScenarioValues ==
    {<<>>, <<<<>>>>, <<Sabc>>, <<S35>>} \cup {<<ScaleStr[n]>> : n \in 1..5}

InitScenario ==
    /\ users = InitUsers
    /\ questionnaires \in [{1} -> [creator_id : {2}, is_active : {TRUE}, is_public : {TRUE},
                                    allow_anonymous : BOOLEAN,
                                    allow_multiple_responses : BOOLEAN]]
    /\ questions = [i \in {1} |-> QuestionRow(1, "scale_1_5", TRUE, 1)]
    /\ responses = EmptyTable
    /\ answers = EmptyTable
    /\ now = 0
    /\ last = NoRequest
    /\ inflight = EmptyTable

ScenarioRespond ==
    \E actor \in {NoUser, 3}, value \in ScenarioValues, save_draft \in BOOLEAN :
        Respond(actor, 1, "POST", [i \in {1} |-> value], save_draft)

NextScenario == ScenarioRespond

SpecScenario == InitScenario /\ [][NextScenario]_vars

\* C7: a final submit with the non-numeric value "abc" for the required
\* scale question does not produce a complete response.
C7_NonNumericRejected ==
    (Submitted /\ ~last.save_draft /\ last.form[1] = <<Sabc>>) => ~IsComplete(last.rid)

\* C8: a final submit with the numeric string n in 1..5 for the required
\* scale question yields a complete response whose single answer has
\* answer_value n and no answer_text, and whose completion percentage is 100.
C8_NumericAccepted ==
    \A n \in 1..5 :
        (Submitted /\ ~last.save_draft /\ last.form[1] = <<ScaleStr[n]>>)
            => /\ IsComplete(last.rid)
               /\ \E a \in DOMAIN answers :
                    /\ {b \in DOMAIN answers : answers[b].response_id = last.rid} = {a}
                    /\ answers[a].question_id = 1
                    /\ answers[a].answer_value = <<10 * n>>
                    /\ answers[a].answer_text = <<>>
               /\ get_completion_percentage(last.rid) = 100 * 100

\* user 3 submits "3" and the response is complete with the value 3.0
C8_Witness ==
    /\ Submitted /\ ~last.save_draft /\ last.form[1] = <<ScaleStr[3]>>
    /\ IsComplete(last.rid)
    /\ responses[last.rid].user_id = 3
    /\ \E a \in AnswersOf(last.rid) : answers[a].answer_value = <<30>>

\* ------------------------------------------------------- editing requests
\* Two questionnaires, the first of the creator (user 2), the second of the
\* admin (user 1), each with one question; user 3 has completed a response
\* to the first. Every actor sends every editing request.
SA == <<"A">>
SB == <<"B">>

InitEdit ==
    /\ users = InitUsers
    /\ questionnaires = [i \in {1, 2} |->
            [creator_id |-> IF i = 1 THEN 2 ELSE 1, is_active |-> TRUE, is_public |-> TRUE,
             allow_anonymous |-> FALSE, allow_multiple_responses |-> FALSE]]
    /\ questions = [i \in {1, 2} |-> QuestionRow(i, "open_ended", FALSE, 1)]
    /\ responses = [r \in {1} |-> ResponseRow(1, 3, TRUE)]
    /\ answers = [a \in {1} |-> [response_id |-> 1, question_id |-> 1,
                                   answer_text |-> Some(SA), answer_value |-> None]]
    /\ now = 0
    /\ last = NoRequest
    /\ inflight = EmptyTable

EditSettingsForms ==
    {[is_active |-> TRUE, is_public |-> FALSE, allow_anonymous |-> TRUE,
      allow_multiple_responses |-> TRUE]}

EditQuestionData ==
    [questionnaire_id : {1, 2}, question_type : {None}, is_required : {None}, options : {None}]
    \cup [questionnaire_id : {1, 2}, question_type : {Some("single_choice")},
          is_required : {Some(TRUE)}, options : {Some(<<SA, SB>>)}]

EditSettings == \E actor \in Actors, id \in {1, 2}, form \in EditSettingsForms :
                    settings(actor, id, form)
EditDelete == \E actor \in Actors, id \in {1, 2} : delete(actor, id)
EditCreateQuestion == \E actor \in Actors, data \in EditQuestionData : create_question(actor, data)
EditUpdateQuestion == \E actor \in Actors, q \in {1, 2}, data \in EditQuestionData :
                        update_question(actor, q, data)
EditDeleteQuestion == \E actor \in Actors, q \in {1, 2} : delete_question(actor, q)
EditReorder == \E actor \in Actors, id \in {1, 2}, ids \in {<<1, 2>>, <<2, 1>>} :
                    reorder_questions(actor, id, ids)
EditDeleteResponse == \E actor \in Actors, r \in {1, 2} : delete_response(actor, r)
EditToggle == \E actor \in Actors, id \in {1, 2} : toggle_questionnaire_status(actor, id)
EditChangeRole == \E actor \in Actors, u \in {1, 3}, role \in {"admin", "user"} :
                    change_user_role(actor, u, role)
EditRespond == \E actor \in Actors, id \in {1, 2} :
                    Respond(actor, id, "POST", [i \in QuestionsOf(id) |-> <<SA>>], FALSE)

NextEdit ==
    \/ EditSettings
    \/ EditDelete
    \/ EditCreateQuestion
    \/ EditUpdateQuestion
    \/ EditDeleteQuestion
    \/ EditReorder
    \/ EditDeleteResponse
    \/ EditToggle
    \/ EditChangeRole
    \/ EditRespond

SpecEdit == InitEdit /\ [][NextEdit]_vars

\* the questions of questionnaire q in a questions table
QuestionRows(tbl, q) ==
    {<<i, tbl[i]>> : i \in {j \in DOMAIN tbl : tbl[j].questionnaire_id = q}}

\* the step changes the settings or the questions of q, deletes q or deletes
\* one of its responses
Edited(q) ==
    \/ q \notin DOMAIN questionnaires'
    \/ q \in DOMAIN questionnaires' /\ questionnaires'[q] # questionnaires[q]
    \/ QuestionRows(questions', q) # QuestionRows(questions, q)
    \/ \E r \in DOMAIN responses :
            responses[r].questionnaire_id = q /\ r \notin DOMAIN responses'

\* C4: the settings of a questionnaire, its questions, its existence and the
\* existence of its responses are changed only by a request whose actor is,
\* when the request arrives, an admin or the creator of the questionnaire.
C4_OnlyEditors ==
    [][\A q \in DOMAIN questionnaires :
          Edited(q) => /\ last'.actor # NoUser
                       /\ \/ users[last'.actor].role = "admin"
                          \/ questionnaires[q].creator_id = last'.actor]_vars

\* user 1, no longer an admin, is refused the deletion of a response to the
\* questionnaire of user 2, on which an admin has changed something before
C4_Witness ==
    /\ last.op = "delete_response" /\ last.status = "403" /\ last.actor = 1
    /\ users[1].role = "user"
    /\ 1 \in DOMAIN questionnaires /\ 1 \in DOMAIN responses

\* ---------------------------------------------------- concurrent respond
\* Two workers serve respond requests of user 3 for questionnaire 1, each in
\* its own session and transaction. A request reads the committed tables
\* when it looks up the draft (RaceLookup) and when it looks up the answers
\* (RaceAnswers), and writes when it commits (RaceCommit); primary keys are
\* those of the rows as committed.
Workers == {1, 2}

InitRace ==
    /\ users = InitUsers
    /\ questionnaires = [i \in {1} |->
            [creator_id |-> 2, is_active |-> TRUE, is_public |-> TRUE,
             allow_anonymous |-> FALSE, allow_multiple_responses |-> FALSE]]
    /\ questions = [i \in {1} |-> QuestionRow(1, "open_ended", FALSE, 1)]
    /\ responses = EmptyTable
    /\ answers = EmptyTable
    /\ now = 0
    /\ last = NoRequest
    /\ inflight = EmptyTable

\* respond up to the draft lookup
RaceLookup(w, actor, id, form, save_draft) ==
    /\ w \notin DOMAIN inflight
    /\ Tick
    /\ UNCHANGED <<users, questionnaires, questions, responses, answers>>
    /\ IF id \notin DOMAIN questionnaires
       THEN /\ last' = Outcome("respond", actor, id, "404", 0, 0, form, save_draft)
            /\ UNCHANGED inflight
       ELSE IF ~questionnaires[id].is_active
       THEN /\ last' = Outcome("respond", actor, id, "inactive", 0, 1, form, save_draft)
            /\ UNCHANGED inflight
       ELSE IF ~can_user_respond(id, actor)
       THEN /\ last' = Outcome("respond", actor, id, RespondDenied(actor, id), 0, 1, form, save_draft)
            /\ UNCHANGED inflight
       ELSE LET drafts == IF actor # NoUser THEN DraftsOf(id, actor) ELSE {}
            IN  \E found \in (IF drafts = {} THEN {{}} ELSE {{r} : r \in drafts}) :
                    /\ inflight' = Insert(inflight, w,
                            [actor |-> actor, id |-> id, form |-> form, save_draft |-> save_draft,
                             found |-> found, phase |-> "lookup", flashes |-> 0,
                             updates |-> EmptyTable, inserts |-> <<>>])
                    /\ last' = Outcome("respond", actor, id, "lookup", 0, 0, form, save_draft)

\* the rows of tbl with the keys in S, in key order
RECURSIVE RowsInOrder(_, _)
RowsInOrder(tbl, S) ==
    IF S = {} THEN <<>> ELSE <<tbl[Min(S)]>> \o RowsInOrder(tbl, S \ {Min(S)})

\* the loop over the questions: the answers looked up now, the changed and
\* the new rows kept in the session until the commit
RaceAnswers(w) ==
    /\ w \in DOMAIN inflight /\ inflight[w].phase = "lookup"
    /\ LET req == inflight[w]
           rid == IF req.found = {} THEN 0 ELSE CHOOSE r \in req.found : TRUE
           acc == ProcessAnswers(get_questions(req.id), rid, req.form,
                                 [answers |-> answers, flashes |-> 0])
           changed == {a \in DOMAIN answers : acc.answers[a] # answers[a]}
       IN  inflight' = [inflight EXCEPT ![w] =
               [actor |-> req.actor, id |-> req.id, form |-> req.form,
                save_draft |-> req.save_draft, found |-> req.found, phase |-> "answers",
                flashes |-> acc.flashes,
                updates |-> [a \in changed |-> acc.answers[a]],
                inserts |-> RowsInOrder(acc.answers, DOMAIN acc.answers \ DOMAIN answers)]]
    /\ UNCHANGED <<users, questionnaires, questions, responses, answers, now, last>>

\* INSERT of the session's new answer rows for response rid
RECURSIVE InsertAll(_, _, _)
InsertAll(tbl, rows, rid) ==
    IF rows = <<>> THEN tbl
    ELSE InsertAll(Insert(tbl, NextId(tbl), [rows[1] EXCEPT !.response_id = rid]), Tail(rows), rid)

\* commit or rollback of the session
RaceCommit(w) ==
    /\ w \in DOMAIN inflight /\ inflight[w].phase = "answers"
    /\ LET req == inflight[w]
           fresh == req.found = {}
           rid == IF fresh THEN NextId(responses) ELSE CHOOSE r \in req.found : TRUE
           updated == [a \in DOMAIN answers |->
                          IF a \in DOMAIN req.updates THEN req.updates[a] ELSE answers[a]]
       IN  /\ fresh => Cardinality(DOMAIN responses) < MaxResponses
           /\ IF req.flashes = 0
              THEN /\ answers' = InsertAll(updated, req.inserts, rid)
                   /\ IF req.save_draft
                      THEN /\ responses' =
                                IF fresh
                                THEN Insert(responses, rid,
                                        [questionnaire_id |-> req.id, user_id |-> req.actor,
                                         is_complete |-> FALSE, submitted_at |-> now])
                                ELSE responses
                           /\ last' = Outcome("respond", req.actor, req.id, "draft", rid, 1,
                                              req.form, req.save_draft)
                      ELSE /\ responses' = Insert(responses, rid,
                                    [questionnaire_id |-> req.id, user_id |-> req.actor,
                                     is_complete |-> TRUE, submitted_at |-> now])
                           /\ last' = Outcome("respond", req.actor, req.id, "complete", rid, 1,
                                              req.form, req.save_draft)
              ELSE /\ UNCHANGED <<responses, answers>>
                   /\ last' = Outcome("respond", req.actor, req.id, "invalid", rid,
                                      req.flashes, req.form, req.save_draft)
    /\ inflight' = Remove(inflight, {w})
    /\ UNCHANGED <<users, questionnaires, questions, now>>

RaceForms == {[i \in {1} |-> <<SA>>], [i \in {1} |-> <<SB>>]}

RaceBegin == \E w \in Workers, form \in RaceForms, save_draft \in BOOLEAN :
                RaceLookup(w, 3, 1, form, save_draft)
RaceMiddle == \E w \in Workers : RaceAnswers(w)
RaceEnd == \E w \in Workers : RaceCommit(w)

NextRace ==
    \/ RaceBegin
    \/ RaceMiddle
    \/ RaceEnd

SpecRace == InitRace /\ [][NextRace]_vars

\* C10: when two respond requests of one user for one questionnaire
\* interleave, the pair still has at most one draft response.
C10_OneDraftInterleaved ==
    \A r1 \in DOMAIN responses : \A r2 \in DOMAIN responses :
        (/\ responses[r1].user_id # NoUser
         /\ responses[r1].user_id = responses[r2].user_id
         /\ responses[r1].questionnaire_id = responses[r2].questionnaire_id
         /\ ~responses[r1].is_complete /\ ~responses[r2].is_complete) => r1 = r2

\* --------------------------------------- response intake: the life cycle
\* the Answer rows of response r in an answers table
AnswerRows(tbl, r) == {<<a, tbl[a]>> : a \in {b \in DOMAIN tbl : tbl[b].response_id = r}}

\* C11: a respond request leaves every response that is complete before it
\* complete and unchanged, with the same Answer rows; can_be_edited is false
\* exactly for the complete responses.
C11_CompleteTerminal ==
    [][/\ \A r \in DOMAIN responses : can_be_edited(r) <=> ~responses[r].is_complete
       /\ last'.op = "respond"
            => \A r \in DOMAIN responses :
                  responses[r].is_complete
                      => /\ r \in DOMAIN responses'
                         /\ responses'[r] = responses[r]
                         /\ AnswerRows(answers', r) = AnswerRows(answers, r)]_vars

\* a user with a complete response submits again and gets another response
C11_Witness ==
    /\ Submitted /\ last.status \in {"draft", "complete"} /\ last.actor # NoUser
    /\ last.rid \in DOMAIN responses
    /\ \E r \in DOMAIN responses \ {last.rid} :
            /\ responses[r].user_id = last.actor
            /\ responses[r].questionnaire_id = last.id
            /\ responses[r].is_complete
            /\ responses[r].submitted_at < now
            /\ AnswersOf(r) # {}

\* the Answer row a holds the submitted value v of a question of type t
HoldsValue(row, t, v) ==
    IF t = "scale_1_5"
    THEN row.answer_value = ParseFloat(v) /\ row.answer_text = None
    ELSE row.answer_text = Some(v) /\ row.answer_value = None

\* the step is a save-as-draft POST of a user who has no draft, carrying a
\* non-empty value
FirstDraftSave ==
    /\ last'.op = "respond" /\ last'.status \in {"draft", "complete", "invalid"}
    /\ last'.save_draft /\ last'.actor # NoUser
    /\ DraftsOf(last'.id, last'.actor) = {}
    /\ \E i \in QuestionsOf(last'.id) : Filled(last'.form, i)

\* the step creates a draft of the actor that holds every submitted value
DraftCreated ==
    \E r \in DOMAIN responses' \ DOMAIN responses :
        /\ responses'[r].questionnaire_id = last'.id
        /\ responses'[r].user_id = last'.actor
        /\ ~responses'[r].is_complete
        /\ \A i \in QuestionsOf(last'.id) :
              Filled(last'.form, i)
                  => \E a \in DOMAIN answers' :
                        /\ answers'[a].response_id = r /\ answers'[a].question_id = i
                        /\ HoldsValue(answers'[a], questions[i].question_type, last'.form[i][1])

\* C12: a save-as-draft submission of an authenticated user who has no draft
\* for the questionnaire and submits at least one non-empty answer creates a
\* response with is_complete false for the pair, holding the submitted
\* answers.
C12_DraftCreated == [][FirstDraftSave => DraftCreated]_vars

\* the step repeats the draft save served just before it: same user, same
\* questionnaire, same form data
RepeatedDraftSave ==
    /\ last.op = "respond" /\ last.status = "draft" /\ last.actor # NoUser
    /\ last'.op = "respond" /\ last'.status \in {"draft", "complete", "invalid"}
    /\ last'.save_draft
    /\ last'.actor = last.actor /\ last'.id = last.id /\ last'.form = last.form

C14_AnonymousFresh ==
    [][(last'.op = "respond" /\ last'.actor = NoUser /\ last'.status \in {"draft", "complete"})
          => /\ \E r \in DOMAIN responses' \ DOMAIN responses :
                    /\ DOMAIN responses' = DOMAIN responses \cup {r}
                    /\ responses'[r].user_id = NoUser
                    /\ last'.rid = r
             /\ \A r \in DOMAIN responses : responses'[r] = responses[r]
             /\ \A a \in DOMAIN answers : a \in DOMAIN answers' /\ answers'[a] = answers[a]]_vars

\* an anonymous submission is accepted while an anonymous draft holding an
\* answer exists, and that draft is not the response of the submission
C14_Witness ==
    /\ Submitted /\ last.actor = NoUser /\ last.status \in {"draft", "complete"}
    /\ \E i \in QuestionsOf(last.id) : Filled(last.form, i)
    /\ \E r \in DOMAIN responses \ {last.rid} :
            /\ responses[r].user_id = NoUser
            /\ responses[r].questionnaire_id = last.id
            /\ ~responses[r].is_complete
            /\ AnswersOf(r) # {}

\* pct, in hundredths of a percent point, is 100 * num / den to two decimal
\* places
IsPercentOf(pct, num, den) ==
    LET diff == pct * den - 100 * 100 * num
    IN  2 * (IF diff < 0 THEN -diff ELSE diff) <= den

\* C19: the completion rate of every questionnaire is between 0 and 100, is 0
\* when the questionnaire has no response, and is otherwise 100 times the
\* number of complete responses over the number of all responses, drafts
\* included, to the two decimal places the code rounds to.
C19_CompletionRate ==
    \A q \in DOMAIN questionnaires :
        LET total == Cardinality({r \in DOMAIN responses : responses[r].questionnaire_id = q})
            complete == Cardinality({r \in DOMAIN responses :
                            responses[r].questionnaire_id = q /\ responses[r].is_complete})
        IN  /\ 0 <= get_completion_rate(q) /\ get_completion_rate(q) <= 100 * 100
            /\ total = 0 => get_completion_rate(q) = 0
            /\ total > 0 => IsPercentOf(get_completion_rate(q), complete, total)

\* after a submission the questionnaire has a draft and a complete response
\* and its rate is 50
C19_Witness ==
    /\ Submitted
    /\ \E r \in ResponsesOf(1) : responses[r].is_complete
    /\ \E r \in ResponsesOf(1) : ~responses[r].is_complete
    /\ get_completion_rate(1) = 50 * 100

\* --------------------------------- response intake: one complete response
\* the number of complete responses of user u to questionnaire q in a
\* responses table
CompleteCount(tbl, q, u) ==
    Cardinality({r \in DOMAIN tbl :
                    tbl[r].questionnaire_id = q /\ tbl[r].user_id = u /\ tbl[r].is_complete})

\* C26: while allow_multiple_responses of a questionnaire is false, a
\* request adds a complete response of a user to it only when the user has
\* none, so a user who starts without one never has more than one, whatever
\* draft saves and final submits the user sends.
C26_OneComplete ==
    [][\A q \in DOMAIN questionnaires : \A u \in DOMAIN users :
          (/\ ~questionnaires[q].allow_multiple_responses
           /\ CompleteCount(responses', q, u) > CompleteCount(responses, q, u))
              => /\ CompleteCount(responses, q, u) = 0
                 /\ CompleteCount(responses', q, u) = 1]_vars

\* a user who has one complete response submits again and is turned away
C26_Witness ==
    /\ last.op = "respond" /\ last.status = "already" /\ last.actor # NoUser
    /\ ~last.save_draft
    /\ CompleteCount(responses, last.id, last.actor) = 1
    /\ \E i \in QuestionsOf(last.id) : Filled(last.form, i)

\* the required questions of the questionnaire of the last request
RequiredNow == {i \in QuestionsOf(last.id) : questions[i].is_required}

\* the response of the last request holds an Answer row for every required
\* question
RequiredAnswered ==
    \A i \in RequiredNow : \E a \in AnswersOf(last.rid) : answers[a].question_id = i

\* C27 as stated: right after the request that completes it, a response
\* holds an Answer row for every required question and its completion
\* percentage is 100.
C27_CompleteIsFull ==
    (Submitted /\ last.status = "complete")
        => /\ RequiredAnswered
           /\ get_completion_percentage(last.rid) = 100 * 100

\* C27 amended: right after the request that completes it, a response holds
\* an Answer row for every required question; its completion percentage is
\* 100, except that it is 0 when the questionnaire has no required question
\* and the response holds no answer.
C27_CompleteAnswersRequired ==
    (Submitted /\ last.status = "complete")
        => /\ RequiredAnswered
           /\ get_completion_percentage(last.rid) =
                (IF RequiredNow = {} /\ AnswersOf(last.rid) = {} THEN 0 ELSE 100 * 100)

\* a draft that answered the optional question only is completed by a
\* submission that fills the required question
C27_Witness ==
    /\ Submitted /\ last.status = "complete"
    /\ responses[last.rid].user_id # NoUser
    /\ RequiredNow # {} /\ RequiredNow # QuestionsOf(last.id)
    /\ \A i \in QuestionsOf(last.id) : Filled(last.form, i) <=> i \in RequiredNow
    /\ Cardinality(AnswersOf(last.rid)) = 2
    /\ get_completion_percentage(last.rid) = 100 * 100

\* the Answer rows of response r for question i in an answers table
AnswerRowsFor(tbl, r, i) ==
    {<<a, tbl[a]>> : a \in {b \in DOMAIN tbl : tbl[b].response_id = r /\ tbl[b].question_id = i}}

\* C28: an accepted submission on an existing draft leaves the Answer rows
\* of the draft for every question without a non-empty submitted value as
\* they were, and no request to respond removes an Answer row.
C28_EmptyValueKeepsAnswer ==
    [][last'.op = "respond"
          => /\ \A a \in DOMAIN answers : a \in DOMAIN answers'
             /\ (last'.status \in {"draft", "complete"} /\ last'.rid \in DOMAIN responses)
                    => \A i \in QuestionsOf(last'.id) :
                          ~Filled(last'.form, i)
                              => AnswerRowsFor(answers', last'.rid, i)
                                    = AnswerRowsFor(answers, last'.rid, i)]_vars

\* a draft is saved again with no value for the optional question it
\* already answers, and still holds that answer
C28_Witness ==
    /\ Submitted /\ last.status = "draft" /\ last.rid \in DOMAIN responses
    /\ responses[last.rid].submitted_at < now
    /\ \E i \in QuestionsOf(last.id) :
            /\ ~questions[i].is_required
            /\ ~Filled(last.form, i)
            /\ \E a \in AnswersOf(last.rid) :
                    answers[a].question_id = i
                    /\ (answers[a].answer_text # None \/ answers[a].answer_value # None)

\* ------------------------------------------------ answers and their types
\* Questionnaire 1 of the creator (user 2) with a scale question and an open
\* question, each required or not; user 3 has a draft that answers both. User 3 submits again,
\* numbers, text, several values or nothing per field, and the creator
\* changes the type of a question between two submissions.
TypedValues == {<<>>, <<S3>>, <<Sabc>>, <<SA, SB>>}

InitTyped ==
    /\ users = InitUsers
    /\ questionnaires = [i \in {1} |->
            [creator_id |-> 2, is_active |-> TRUE, is_public |-> TRUE,
             allow_anonymous |-> FALSE, allow_multiple_responses |-> FALSE]]
    /\ questions \in {[i \in {1, 2} |->
                         QuestionRow(1, IF i = 1 THEN "scale_1_5" ELSE "open_ended", r[i], i)] :
                      r \in BOOLEAN \X BOOLEAN}
    /\ responses = [r \in {1} |-> ResponseRow(1, 3, FALSE)]
    /\ answers = [a \in {1, 2} |->
            [response_id |-> 1, question_id |-> a,
             answer_text |-> IF a = 1 THEN None ELSE Some(SA),
             answer_value |-> IF a = 1 THEN Some(30) ELSE None]]
    /\ now = 0
    /\ last = NoRequest
    /\ inflight = EmptyTable

TypedRespond ==
    \E form \in [{1, 2} -> TypedValues], save_draft \in BOOLEAN :
        Respond(3, 1, "POST", form, save_draft)

TypedRetype ==
    \E q \in {1, 2}, t \in QUESTION_TYPES :
        update_question(2, q, [questionnaire_id |-> 1, question_type |-> Some(t),
                               is_required |-> None, options |-> None])

NextTyped ==
    \/ TypedRespond
    \/ TypedRetype

SpecTyped == InitTyped /\ [][NextTyped]_vars

\* the value respond hands to set_value for question i
SubmittedValue(form, i) ==
    IF questions[i].question_type = "multiple_choice" THEN Join(form[i]) ELSE form[i][1]

\* C15: no Answer has both answer_text and answer_value set; after an
\* accepted submission the answer to a scale_1_5 question has no answer_text,
\* and the answer to a question of another type holds the submitted text and
\* no answer_value, whatever the answer held before.
C15_OneFieldSet ==
    /\ \A a \in DOMAIN answers : answers[a].answer_text = None \/ answers[a].answer_value = None
    /\ (Submitted /\ last.status \in {"draft", "complete"})
          => \A i \in QuestionsOf(last.id) :
                Filled(last.form, i)
                    => \E a \in AnswersOf(last.rid) :
                          /\ answers[a].question_id = i
                          /\ IF questions[i].question_type = "scale_1_5"
                             THEN answers[a].answer_text = None
                             ELSE /\ answers[a].answer_text = Some(SubmittedValue(last.form, i))
                                  /\ answers[a].answer_value = None

\* answer 1, which held a number, holds text after the retyping of its
\* question, and answer 2, which held text, holds a number
C15_Witness ==
    /\ Submitted /\ last.status = "draft" /\ last.rid = 1
    /\ 1 \in DOMAIN answers /\ 2 \in DOMAIN answers
    /\ answers[1].answer_text = Some(Sabc) /\ answers[1].answer_value = None
    /\ answers[2].answer_value = Some(30) /\ answers[2].answer_text = None

\* question i is a scale question and the form carries a value for it that
\* float() rejects
Unparsable(form, i) ==
    /\ questions[i].question_type = "scale_1_5"
    /\ Filled(form, i)
    /\ ParseFloat(form[i][1]) = None

\* C16: a submission that carries an unparsable value for a scale_1_5
\* question is rejected only when a required question has no value;
\* otherwise the answer to the scale question is stored with answer_text and
\* answer_value both empty and every other submitted value is stored in its
\* answer.
C16_UnparsableStoredEmpty ==
    \A i \in DOMAIN questions :
        (Submitted /\ questions[i].questionnaire_id = last.id /\ Unparsable(last.form, i))
            => /\ (last.status = "invalid") <=> (RequiredMissing(last.form, last.id) # {})
               /\ last.status # "invalid"
                    => /\ \E a \in AnswersOf(last.rid) :
                              /\ answers[a].question_id = i
                              /\ answers[a].answer_text = None
                              /\ answers[a].answer_value = None
                       /\ \A j \in QuestionsOf(last.id) \ {i} :
                              Filled(last.form, j)
                                  => \E b \in AnswersOf(last.rid) :
                                        /\ answers[b].question_id = j
                                        /\ HoldsValue(answers[b], questions[j].question_type,
                                                      SubmittedValue(last.form, j))

\* "abc" is submitted for the required scale question together with text
\* for the open question: the response is complete, the first answer is
\* empty, the second holds the text
C16_Witness ==
    /\ Submitted /\ last.status = "complete"
    /\ 1 \in DOMAIN questions /\ questions[1].question_type = "scale_1_5"
    /\ questions[1].is_required
    /\ last.form[1] = <<Sabc>> /\ last.form[2] = <<Sabc>>
    /\ 2 \in DOMAIN questions /\ questions[2].question_type = "open_ended"
    /\ \E a \in AnswersOf(last.rid) :
            answers[a].question_id = 1 /\ answers[a].answer_text = None
            /\ answers[a].answer_value = None
    /\ \E b \in AnswersOf(last.rid) :
            answers[b].question_id = 2 /\ answers[b].answer_text = Some(Sabc)

\* ------------------------------------------------- multiple choice answers
\* Questionnaire 1 of the creator (user 2) with one multiple_choice question
\* whose options are "A", "B" and "A,B"; users 2 and 3 tick any of the boxes
\* and submit or save, the creator deletes responses.
SAcB == <<"A", ",", "B">>
ChoiceOptions == <<SA, SB, SAcB>>

\* the values of the ticked boxes, in the order of the options
Selected(S) == [k \in 1..Cardinality(S) |-> ChoiceOptions[Ascending(S)[k]]]
Selections == {Selected(S) : S \in SUBSET (1..Len(ChoiceOptions))}

InitChoice ==
    /\ users = InitUsers
    /\ questionnaires \in [{1} -> [creator_id : {2}, is_active : {TRUE}, is_public : {TRUE},
                                    allow_anonymous : {FALSE},
                                    allow_multiple_responses : BOOLEAN]]
    /\ questions \in {[i \in {1} |->
                         [questionnaire_id |-> 1, question_type |-> "multiple_choice",
                          is_required |-> r, order_index |-> 1,
                          options_json |-> OptionsJson(StripOptions(ChoiceOptions))]] :
                      r \in BOOLEAN}
    /\ responses = EmptyTable
    /\ answers = EmptyTable
    /\ now = 0
    /\ last = NoRequest
    /\ inflight = EmptyTable

ChoiceRespond ==
    \E actor \in {2, 3}, selected \in Selections, save_draft \in BOOLEAN :
        Respond(actor, 1, "POST", [i \in {1} |-> selected], save_draft)

ChoiceDeleteResponse == \E r \in DOMAIN responses : delete_response(2, r)

NextChoice ==
    \/ ChoiceRespond
    \/ ChoiceDeleteResponse

SpecChoice == InitChoice /\ [][NextChoice]_vars

\* the elements of a list
Range(list) == {list[k] : k \in 1..Len(list)}

\* the response of the last submission is complete and holds the only
\* answer to question 1 that the statistics see
SingleCompleteAnswer ==
    /\ Submitted /\ last.status = "complete" /\ last.form[1] # <<>>
    /\ \E a \in AnswersOf(last.rid) : CompleteAnswers(1) = <<a>>

\* C17: when the boxes S of the multiple_choice question are ticked in the
\* only completed response, the answer holds the values of S joined with
\* ", " and the answer_distribution of get_answer_statistics maps each
\* element of S to 1 and has no other key.
C17_MultiSelectRoundTrip ==
    SingleCompleteAnswer
        => /\ answers[CompleteAnswers(1)[1]].answer_text = Some(Join(last.form[1]))
           /\ get_answer_statistics(1).answer_distribution = [v \in Range(last.form[1]) |-> 1]

\* --------------------------------------------- response intake: statistics
\* the step creates a draft, changes a draft and its answers, or deletes a
\* draft
DraftStep ==
    \/ last'.op = "respond" /\ last'.status = "draft"
    \/ /\ last'.op = "delete_response" /\ last'.status = "ok"
       /\ ~responses[last'.rid].is_complete

\* C18: a step that creates, changes or deletes a draft response or its
\* answers leaves total_answers, answer_distribution and sample_responses of
\* every question as they were: the statistics see complete responses only.
C18_DraftsNotCounted ==
    [][DraftStep => \A q \in DOMAIN questions :
                        get_answer_statistics(q)' = get_answer_statistics(q)]_vars

\* a draft holding an answer is saved while the statistics of the question
\* count the answer of a complete response
C18_Witness ==
    /\ Submitted /\ last.status = "draft"
    /\ \E a \in AnswersOf(last.rid) :
            /\ get_answer_statistics(answers[a].question_id).total_answers = 1
            /\ a \notin Range(CompleteAnswers(answers[a].question_id))

\* ------------------------------------- editing requests: completion
\* C20: for every response, get_completion_percentage is 100 when the
\* questionnaire has no required question and the response has an answer, 0
\* when it has no required question and the response has no answer, and
\* otherwise 100 times the number of required questions the response answers
\* over the number of required questions, to the two decimal places the code
\* rounds to.
C20_CompletionPercentage ==
    \A r \in DOMAIN responses :
        LET required == {i \in DOMAIN questions :
                            /\ questions[i].questionnaire_id = responses[r].questionnaire_id
                            /\ questions[i].is_required}
            answered == {i \in required :
                            \E a \in DOMAIN answers :
                                answers[a].response_id = r /\ answers[a].question_id = i}
            has_answer == \E a \in DOMAIN answers : answers[a].response_id = r
        IN  IF required = {}
            THEN get_completion_percentage(r) = (IF has_answer THEN 100 * 100 ELSE 0)
            ELSE IsPercentOf(get_completion_percentage(r), Cardinality(answered),
                             Cardinality(required))

\* the response answers one of the two required questions of its
\* questionnaire: 50
C20_Witness ==
    \E r \in DOMAIN responses :
        /\ Cardinality({i \in QuestionsOf(responses[r].questionnaire_id) :
                            questions[i].is_required}) = 2
        /\ Cardinality(AnswersOf(r)) = 1
        /\ get_completion_percentage(r) = 50 * 100

\* ------------------------------------- editing requests: cascades
\* C21: every question and every response refers to an existing
\* questionnaire, every answer to an existing response and an existing
\* question; after the deletion of a questionnaire none of its questions and
\* responses is left.
C21_NoOrphans ==
    /\ \A i \in DOMAIN questions : questions[i].questionnaire_id \in DOMAIN questionnaires
    /\ \A r \in DOMAIN responses : responses[r].questionnaire_id \in DOMAIN questionnaires
    /\ \A a \in DOMAIN answers :
            /\ answers[a].response_id \in DOMAIN responses
            /\ answers[a].question_id \in DOMAIN questions
    /\ (last.op = "delete" /\ last.status = "ok")
            => /\ last.id \notin DOMAIN questionnaires
               /\ \A i \in DOMAIN questions : questions[i].questionnaire_id # last.id
               /\ \A r \in DOMAIN responses : responses[r].questionnaire_id # last.id

\* questionnaire 1, which had a question, a response and an answer, is
\* deleted; questionnaire 2 and its question remain
C21_Witness ==
    /\ last.op = "delete" /\ last.status = "ok" /\ last.id = 1
    /\ responses = EmptyTable /\ answers = EmptyTable
    /\ 2 \in DOMAIN questionnaires
    /\ \E i \in DOMAIN questions : questions[i].questionnaire_id = 2

\* ------------------------------------------------------ question options
\* Questionnaire 1 of the creator (user 2), at first without questions. The
\* creator creates, updates and deletes questions of every type, with no
\* options, an empty list, blank options only, and padded options mixed with
\* an empty one.
SpadA == <<" ", "A", " ">>
Sblank == <<" ">>
Sempty == <<>>

OptionLists == {None, Some(<<>>), Some(<<Sblank, Sempty>>), Some(<<SpadA, Sempty, SB>>)}

OptionData ==
    [questionnaire_id : {1},
     question_type : {None} \cup {Some(t) : t \in QUESTION_TYPES},
     is_required : {None},
     options : OptionLists]

InitOptions ==
    /\ users = InitUsers
    /\ questionnaires = [i \in {1} |->
            [creator_id |-> 2, is_active |-> TRUE, is_public |-> TRUE,
             allow_anonymous |-> FALSE, allow_multiple_responses |-> FALSE]]
    /\ questions = EmptyTable
    /\ responses = EmptyTable
    /\ answers = EmptyTable
    /\ now = 0
    /\ last = NoRequest
    /\ inflight = EmptyTable

OptionsCreate == \E data \in OptionData : create_question(2, data)
OptionsUpdate == \E q \in DOMAIN questions, data \in OptionData : update_question(2, q, data)
OptionsDelete == \E q \in DOMAIN questions : delete_question(2, q)

NextOptions ==
    \/ OptionsCreate
    \/ OptionsUpdate
    \/ OptionsDelete

SpecOptions == InitOptions /\ [][NextOptions]_vars

\* C22: an open_ended or scale_1_5 question has no stored options; the
\* stored options of a single_choice or multiple_choice question are a
\* non-empty list of strings that are non-empty after trimming, an empty
\* list being stored as no options.
C22_StoredOptions ==
    \A i \in DOMAIN questions :
        /\ questions[i].question_type \in {"open_ended", "scale_1_5"}
              => questions[i].options_json = None
        /\ questions[i].options_json # None
              => /\ questions[i].question_type \in {"single_choice", "multiple_choice"}
                 /\ questions[i].options_json[1] # <<>>
                 /\ \A k \in 1..Len(questions[i].options_json[1]) :
                        Strip(questions[i].options_json[1][k]) # <<>>

\* after an update, one choice question holds the options "A" and "B", left
\* of " A ", "" and "B", and another choice question holds none
C22_Witness ==
    /\ last.op = "update_question" /\ last.status = "ok"
    /\ \E i \in DOMAIN questions :
            /\ questions[i].question_type = "multiple_choice"
            /\ questions[i].options_json = Some(<<SA, SB>>)
    /\ \E i \in DOMAIN questions :
            /\ questions[i].question_type = "single_choice"
            /\ questions[i].options_json = None

\* ------------------------------------ concurrent respond: one draft
\* User 3 has a draft for questionnaire 1 that holds no answer yet (saved
\* with the optional question left empty); two workers serve further
\* requests of user 3.
InitRaceDraft ==
    /\ users = InitUsers
    /\ questionnaires = [i \in {1} |->
            [creator_id |-> 2, is_active |-> TRUE, is_public |-> TRUE,
             allow_anonymous |-> FALSE, allow_multiple_responses |-> FALSE]]
    /\ questions = [i \in {1} |-> QuestionRow(1, "open_ended", FALSE, 1)]
    /\ responses = [r \in {1} |-> ResponseRow(1, 3, FALSE)]
    /\ answers = EmptyTable
    /\ now = 0
    /\ last = NoRequest
    /\ inflight = EmptyTable

DraftRaceBegin == \E w \in Workers, form \in RaceForms : RaceLookup(w, 3, 1, form, TRUE)
DraftRaceMiddle == \E w \in Workers : RaceAnswers(w)
DraftRaceEnd == \E w \in Workers : RaceCommit(w)

NextRaceDraft ==
    \/ DraftRaceBegin
    \/ DraftRaceMiddle
    \/ DraftRaceEnd

SpecRaceDraft == InitRaceDraft /\ [][NextRaceDraft]_vars

\* C23: when draft saves of one user for the same draft and question
\* interleave, the draft holds at most one Answer row for the question, and
\* once the requests are served that row holds the value one of them
\* submitted.
C23_LastWriteWins ==
    /\ \A a \in DOMAIN answers : \A b \in DOMAIN answers :
            (/\ answers[a].response_id = answers[b].response_id
             /\ answers[a].question_id = answers[b].question_id) => a = b
    /\ \A a \in DOMAIN answers :
            \E form \in RaceForms : answers[a].answer_text = Some(form[answers[a].question_id][1])

\* ------------------------------------------------------ sample responses
\* Questionnaire 1 of the creator (user 2) has one question and one complete
\* anonymous response more than the sample holds. Each response answers the
\* question: with text, given while the question was open_ended, or, the
\* first, the second and the last of them, maybe with a number, given while
\* it was scale_1_5. The creator retypes the question and deletes responses.
SampleCount == SampleLimit + 1
NumericAnswers == SUBSET {1, 2, SampleCount}

InitSample ==
    /\ users = InitUsers
    /\ questionnaires = [i \in {1} |->
            [creator_id |-> 2, is_active |-> TRUE, is_public |-> TRUE,
             allow_anonymous |-> TRUE, allow_multiple_responses |-> FALSE]]
    /\ questions = [i \in {1} |-> QuestionRow(1, "scale_1_5", FALSE, 1)]
    /\ responses = [r \in 1..SampleCount |-> ResponseRow(1, NoUser, TRUE)]
    /\ \E numeric \in NumericAnswers :
          answers = [a \in 1..SampleCount |->
                        [response_id |-> a, question_id |-> 1,
                         answer_text |-> IF a \in numeric THEN None ELSE Some(Str(a)),
                         answer_value |-> IF a \in numeric THEN Some(30) ELSE None]]
    /\ now = 0
    /\ last = NoRequest
    /\ inflight = EmptyTable

SampleRetype ==
    \E t \in {"open_ended", "scale_1_5"} :
        update_question(2, 1, [questionnaire_id |-> 1, question_type |-> Some(t),
                               is_required |-> None, options |-> None])

SampleDeleteResponse == \E r \in {1, 2, SampleCount} : delete_response(2, r)

NextSample ==
    \/ SampleRetype
    \/ SampleDeleteResponse

SpecSample == InitSample /\ [][NextSample]_vars

\* the non-empty answer_text values of the completed answers to question q,
\* in creation order
NonEmptyTexts(q) == SampleResponses(CompleteAnswers(q))

\* C24: sample_responses of an open_ended question holds the first 10
\* non-empty answer_text values of completed responses in creation order,
\* exactly 10 of them whenever 10 exist, also when earlier answers have
\* empty text.
C24_FirstTenSamples ==
    \A q \in DOMAIN questions :
        questions[q].question_type = "open_ended"
            => /\ get_answer_statistics(q).sample_responses =
                    Some(SubSeq(NonEmptyTexts(q), 1, Min({Len(NonEmptyTexts(q)), 10})))
               /\ Len(NonEmptyTexts(q)) >= 10
                    => Len(get_answer_statistics(q).sample_responses[1]) = 10

\* ------------------------------------------------------------- reordering
\* Questionnaire 1 of the creator (user 2) and questionnaire 2 of the admin
\* (user 1); question 1 belongs to the first, question 2 to either. The
\* creator and user 3 send sequences of up to three ids: the two questions,
\* the id of no question, and a value that is no id.
ReorderIds == {1, 2, 9, BadId}
ReorderSequences ==
    {<<>>} \cup {<<a>> : a \in ReorderIds} \cup (ReorderIds \X ReorderIds)
    \cup (ReorderIds \X ReorderIds \X ReorderIds)

InitReorder ==
    /\ users = InitUsers
    /\ questionnaires = [i \in {1, 2} |->
            [creator_id |-> IF i = 1 THEN 2 ELSE 1, is_active |-> TRUE, is_public |-> TRUE,
             allow_anonymous |-> FALSE, allow_multiple_responses |-> FALSE]]
    /\ questions \in {[i \in {1, 2} |-> QuestionRow(IF i = 1 THEN 1 ELSE other, "open_ended", FALSE, i)] :
                        other \in {1, 2}}
    /\ responses = EmptyTable
    /\ answers = EmptyTable
    /\ now = 0
    /\ last = NoRequest
    /\ inflight = EmptyTable

ReorderRequest ==
    \E actor \in {2, 3}, id \in {1, 2}, ids \in ReorderSequences :
        reorder_questions(actor, id, ids)

NextReorder == ReorderRequest

SpecReorder == InitReorder /\ [][NextReorder]_vars

\* the last position of i in the sequence, counted from 0
LastPosition(ids, i) == Max({k \in 1..Len(ids) : ids[k] = i}) - 1

\* C25: a reorder request either changes no order_index at all or leaves
\* every question of the given questionnaire that the sequence names at the
\* position the sequence gives it (the last one when it is named twice);
\* it changes nothing else, in particular no question of another
\* questionnaire.
C25_ReorderAtomic ==
    [][last'.op = "reorder_questions"
          => /\ DOMAIN questions' = DOMAIN questions
             /\ \/ questions' = questions
                \/ /\ last'.status = "ok"
                   /\ \A i \in DOMAIN questions :
                        IF questions[i].questionnaire_id = last'.id /\ i \in Range(last'.form)
                        THEN questions'[i] =
                                [questions[i] EXCEPT !.order_index = LastPosition(last'.form, i)]
                        ELSE questions'[i] = questions[i]]_vars

\* the sequence names question 2 and then a value that is no id: the request
\* fails and question 2 keeps the order_index it had
C25_Witness ==
    /\ last.op = "reorder_questions" /\ last.status = "500"
    /\ Len(last.form) >= 2 /\ last.form[1] = 2 /\ last.form[2] = BadId
    /\ questions[2].questionnaire_id = last.id
    /\ questions[2].order_index = 2

\* ------------------------------------- editing requests: private access
\* C29: a response is created or completed through respond only for an
\* actor whom the questionnaire admits: an admin, the creator, or anybody
\* when it is public.
C29_DeniedCannotRespond ==
    (/\ last.op = "respond" /\ last.status \in {"draft", "complete"}
     /\ last.id \in DOMAIN questionnaires)
        => MayAccess(last.actor, last.id)

\* --------------------------------------------------------- user management
\* Three accounts with every role and status such that one of them is an
\* active admin. Every actor, the anonymous one included, sends status and
\* role requests for the three accounts and for the id of no account; the
\* role field holds a role or another word.
AdminTargets == Users \cup {9}
RoleFields == Roles \cup {"root"}

ActiveAdmins == {u \in DOMAIN users : is_admin(u) /\ users[u].is_active}

InitAdmin ==
    /\ users \in [Users -> [role : Roles, is_active : BOOLEAN]]
    /\ ActiveAdmins # {}
    /\ questionnaires = EmptyTable
    /\ questions = EmptyTable
    /\ responses = EmptyTable
    /\ answers = EmptyTable
    /\ now = 0
    /\ last = NoRequest
    /\ inflight = EmptyTable

AdminToggle ==
    \E actor \in Actors, u \in AdminTargets : toggle_user_status(actor, u)

AdminChangeRole ==
    \E actor \in Actors, u \in AdminTargets, role \in RoleFields :
        change_user_role(actor, u, role)

NextAdmin == AdminToggle \/ AdminChangeRole

SpecAdmin == InitAdmin /\ [][NextAdmin]_vars

\* C30: a status or role request leaves at least one active admin when
\* there was one before it; it changes an account only when its actor is an
\* active admin, and never the actor's own status or role.
C30_ActiveAdminRemains ==
    [][(last'.op \in {"toggle_user_status", "change_user_role"} /\ ActiveAdmins # {})
          => /\ ActiveAdmins' # {}
             /\ users' # users
                  => /\ last'.actor \in ActiveAdmins
                     /\ users'[last'.actor] = users[last'.actor]]_vars

\* an admin has deactivated another admin and, in the next request, has
\* been refused the change of their own role
C30_Witness ==
    /\ last.op = "change_user_role" /\ last.status = "own"
    /\ ActiveAdmins = {last.actor}
    /\ \E u \in DOMAIN users : is_admin(u) /\ ~users[u].is_active

====
